---- MODULE Spec2Model ----
(***************************************************************************)
(* Model of src/app.py: a Flask service that runs the Zoom OAuth code flow *)
(* and places Zoom Phone calls.  The two module globals access_token and   *)
(* user_id are shared by every request.  app.run() serves each request in  *)
(* its own thread, so a handler is a sequence of steps that interleave     *)
(* with the steps of other handlers.  A step holds one access to a global  *)
(* together with the work on the handler's own locals and its requests to  *)
(* the provider that come before it; returning the confirmation page is a  *)
(* step of its own.  Handlers that touch no global more than once          *)
(* (/, /authorize, /webhook, /health) are single steps.                    *)
(***************************************************************************)
EXTENDS Integers, FiniteSets, Sequences, TLC

\* ---------------------------------------------------------------- bounds
MaxThreads == 2        \* requests served at the same time
MaxExchanges == 2      \* token responses the provider hands out

Threads == 1..MaxThreads

\* ------------------------------------------------------- python values
None == "None"
Truthy(v) == v \notin {None, ""}

\* the access token of the n-th token response; two users take turns authorizing
Token(n) == "tok" \o ToString(n)
UserOf(n) == IF n % 2 = 1 THEN "usrA" ELSE "usrB"
IssuedTokens == {Token(n) : n \in 1..MaxExchanges}
TokenNumber(tok) == CHOOSE n \in 1..MaxExchanges : Token(n) = tok

\* an upstream request that raised instead of answering (timeout, refused)
NoReply == 0

\* requests.Response.raise_for_status(): raises for 4xx and 5xx only
raise_for_status(status) == status >= 400 /\ status < 600

\* ------------------------------------------------------------ JSON values
JNull == [k |-> "null", s |-> "", f |-> <<>>]
JStr(str) == [k |-> "str", s |-> str, f |-> <<>>]
JList == [k |-> "list", s |-> "", f |-> <<>>]
JDict(fields) == [k |-> "dict", s |-> "", f |-> fields]
Unparseable == [k |-> "unparseable", s |-> "", f |-> <<>>]
Absent == [k |-> "absent", s |-> "", f |-> <<>>]

\* a dict literal of up to two keys; a key whose value is Absent is left out
Dict2(k1, v1, k2, v2) ==
    JDict([key \in {x \in {k1} : v1 # Absent} \cup {x \in {k2} : v2 # Absent}
              |-> IF key = k1 THEN v1 ELSE v2])

\* only a dict has .get; on anything else the attribute lookup raises
HasGet(v) == v.k = "dict"
Get(d, key, default) == IF key \in DOMAIN d.f THEN d.f[key] ELSE default

\* -------------------------------------------------------- request inputs
Codes == {None, "", "c1"}
Extensions == {None, "", "804"}
ContentTypes == {None, "text/plain", "application/json"}

CallObjects == {Absent, JNull,
                Dict2("caller_number", JStr("100"), "id", JStr("abc"))}
Payloads == {Absent, JStr("x")}
               \cup {Dict2("object", o, "account_id", Absent) : o \in CallObjects}
Events == {Absent, JStr("phone.callee_ringing")}
WebhookBodies == {Unparseable, JNull, JList}
                    \cup {Dict2("event", e, "payload", p) : e \in Events, p \in Payloads}
WellFormed == Dict2("event", JStr("phone.callee_ringing"), "payload",
                    Dict2("object", Dict2("caller_number", JStr("100"), "id", JStr("abc")),
                          "account_id", Absent))
\* a request that is not JSON is never parsed: two bodies stand for all
WebhookRequests ==
    {<<ct, b>> : ct \in ContentTypes \ {"application/json"}, b \in {Unparseable, WellFormed}}
        \cup {<<"application/json", b>> : b \in WebhookBodies}

\* ------------------------------------------------------ upstream answers
TokenStatuses == {200, 300, 401}
ProfileStatuses == {200, 401}
CallStatuses == {200, 201, 400}

VARIABLES
    access_token,   \* global, line 30
    user_id,        \* global, line 31
    pc,             \* pc[t]: where thread t is in its handler
    loc,            \* loc[t]: the handler's locals and what it did so far
    response,       \* the HTTP response returned by the last step, if any
    exchanges,      \* token responses the provider has handed out so far
    succeeded,      \* some /callback has returned its confirmation page
    profiled,       \* some /callback has stored the result of a profile lookup
    quiet           \* the last /callback confirmed, none started since

vars == <<access_token, user_id, pc, loc, response, exchanges,
          succeeded, profiled, quiet>>

NoLocals ==
    [code |-> None, extension |-> None, token |-> None,
     bearer |-> None,
     call_url |-> "", payload |-> [commands |-> <<>>],
     sent |-> {}, tokenStatus |-> NoReply, profileStatus |-> NoReply,
     callStatus |-> NoReply, error_message |-> "",
     wrote |-> FALSE, clean |-> FALSE, sawToken |-> FALSE, sawUser |-> FALSE,
     shape |-> "", event_field |-> JNull]

NoResponse ==
    [route |-> "none", status |-> 0, body |-> "", event |-> JNull, ctx |-> NoLocals]

CallbackPcs == {"cb_check", "cb_profile", "cb_wait", "cb_ok"}
MakeCallPcs == {"mc_user", "mc_headers", "mc_url"}

Init ==
    /\ access_token = None
    /\ user_id = None
    /\ pc = [t \in Threads |-> "idle"]
    /\ loc = [t \in Threads |-> NoLocals]
    /\ response = NoResponse
    /\ exchanges = 0
    /\ succeeded = FALSE
    /\ profiled = FALSE
    /\ quiet = FALSE

\* thread t is at label, and no response is waiting to be sent
At(t, label) == response = NoResponse /\ pc[t] = label

\* thread t returns a response and is free for the next request
Reply(t, route, status, body, event, ctx) ==
    /\ pc' = [pc EXCEPT ![t] = "idle"]
    /\ loc' = [loc EXCEPT ![t] = NoLocals]
    /\ response' = [route |-> route, status |-> status, body |-> body,
                    event |-> event, ctx |-> ctx]

\* this step changes Session Token State
Wrote == access_token' # access_token \/ user_id' # user_id

\* thread t moves on inside its handler
Goto(t, label, locals) ==
    /\ pc' = [pc EXCEPT ![t] = label]
    /\ loc' = [loc EXCEPT ![t] = locals]
    /\ response' = NoResponse

\* ------------------------------------------------------------ GET /
home ==
    [status |-> 200,
     body |-> IF Truthy(access_token) THEN "Authorized" ELSE "Not Authorized"]

Home(t) ==
    /\ At(t, "idle")
    /\ UNCHANGED <<access_token, user_id, exchanges,
                   succeeded, profiled, quiet>>
    /\ Reply(t, "home", home.status, home.body, JNull, 
             [NoLocals EXCEPT !.wrote = Wrote])

\* ---------------------------------------------------- GET /authorize
authorize == [status |-> 302, body |-> "https://zoom.us/oauth/authorize"]

Authorize(t) ==
    /\ At(t, "idle")
    /\ UNCHANGED <<access_token, user_id, exchanges,
                   succeeded, profiled, quiet>>
    /\ Reply(t, "authorize", authorize.status, authorize.body, JNull, 
             [NoLocals EXCEPT !.wrote = Wrote])

\* ------------------------------------------------------- GET /health
\* a variant that reports the authorization state
health_check_by_state ==
    IF Truthy(access_token) THEN [status |-> 200, body |-> "healthy"]
    ELSE [status |-> 503, body |-> "unauthorized"]

health_check == [status |-> 200, body |-> "healthy"]

Health(t) ==
    /\ At(t, "idle")
    /\ UNCHANGED <<access_token, user_id, exchanges,
                   succeeded, profiled, quiet>>
    /\ Reply(t, "health", health_check.status, health_check.body, JNull, 
             [NoLocals EXCEPT !.wrote = Wrote])

\* ----------------------------------------------------- POST /webhook
is_json(content_type) == content_type = "application/json"

webhook_error == [status |-> 500, body |-> "error", event |-> JNull]

\* a variant whose data.get("payload") has no default
webhook_no_default(content_type, data) ==
    IF ~is_json(content_type)
    THEN [status |-> 400, body |-> "error", event |-> JNull]
    ELSE IF data = Unparseable \/ ~HasGet(data) THEN webhook_error
    ELSE LET event_type == Get(data, "event", JNull)
             payload == Get(data, "payload", JNull)
         IN IF ~HasGet(payload) THEN webhook_error
            ELSE LET call_object == Get(payload, "object", JDict(<<>>))
                 IN IF ~HasGet(call_object) THEN webhook_error
                    ELSE [status |-> 200, body |-> "received", event |-> event_type]

webhook(content_type, data) ==
    IF ~is_json(content_type)
    THEN [status |-> 400, body |-> "error", event |-> JNull]
    ELSE IF data = Unparseable \/ ~HasGet(data) THEN webhook_error
    ELSE LET event_type == Get(data, "event", JNull)
             payload == Get(data, "payload", JDict(<<>>))
         IN IF ~HasGet(payload) THEN webhook_error
            ELSE LET call_object == Get(payload, "object", JDict(<<>>))
                 IN IF ~HasGet(call_object) THEN webhook_error
                    ELSE [status |-> 200, body |-> "received", event |-> event_type]

\* The three kinds of webhook request, told apart by the look of the request
\* alone: the content type, and which keys of the body hold objects.
IsObject(v) == v.k = "dict"
HoldsObjectOrNothing(v, key) ==
    key \in DOMAIN v.f => IsObject(v.f[key])
Shape(content_type, data) ==
    IF content_type # "application/json" THEN "not json"
    ELSE IF /\ IsObject(data)
            /\ HoldsObjectOrNothing(data, "payload")
            /\ ("payload" \in DOMAIN data.f
                   => HoldsObjectOrNothing(data.f["payload"], "object"))
         THEN "well formed"
         ELSE "malformed"
EventField(data) ==
    IF IsObject(data) /\ "event" \in DOMAIN data.f THEN data.f["event"] ELSE JNull

Webhook(t) ==
    /\ At(t, "idle")
    /\ UNCHANGED <<access_token, user_id, exchanges,
                   succeeded, profiled, quiet>>
    /\ \E req \in WebhookRequests :
          LET r == webhook(req[1], req[2])
          IN Reply(t, "webhook", r.status, r.body, r.event,
                   [NoLocals EXCEPT !.shape = Shape(req[1], req[2]),
                                    !.event_field = EventField(req[2]),
                                    !.wrote = Wrote])

\* ---------------------------------------------------- GET /callback
\* a variant that tests only for a missing parameter, not an empty one
missing_code_only_none(code) == code = None

\* line 107: if not code
missing_code(code) == ~Truthy(code)

\* what the token endpoint can answer; body says what token_response.json() gives
\* (a 3xx answer differs from a 2xx one only when it carries a token)
TokenReplies ==
    {r \in [status : TokenStatuses \cup {NoReply},
            body : {"invalid", "nondict", "absent", "token"}] :
        r.status = 300 => r.body = "token"}

\* lines 112-125 raise: the request fails, the status is 4xx/5xx, or the body
\* is not JSON (requests' JSONDecodeError is a RequestException)
token_exchange_raises(reply) ==
    \/ reply.status = NoReply
    \/ raise_for_status(reply.status)
    \/ reply.body = "invalid"

\* line 127: token_data.get("access_token")
token_data_access_token(reply, n) ==
    IF reply.body = "token" THEN Token(n) ELSE None

\* lines 106-129: the code, the token exchange, the assignment of the global
CallbackStart(t) ==
    /\ At(t, "idle")
    /\ quiet' = FALSE
    /\ UNCHANGED <<user_id, succeeded, profiled>>
    /\ \E code \in Codes, reply \in TokenReplies :
          LET others == [u \in Threads |-> [loc[u] EXCEPT !.clean = FALSE]]
              l0 == [NoLocals EXCEPT !.code = code]
              l == [l0 EXCEPT !.sent = {"token"}, !.tokenStatus = reply.status]
              n == exchanges + 1
              Answer(status, body, ctx) ==
                  /\ pc' = pc
                  /\ loc' = others
                  /\ response' = [route |-> "callback", status |-> status,
                                  body |-> body, event |-> JNull, ctx |-> ctx]
                  /\ UNCHANGED <<access_token, exchanges>>
          IN IF missing_code(code)
             THEN Answer(400, "Authorization code not found.", l0)
             ELSE IF token_exchange_raises(reply)
             THEN Answer(500, "Failed to get access token", l)
             ELSE IF reply.body = "nondict"
             THEN Answer(500, "Internal Server Error", l)
             ELSE /\ exchanges < MaxExchanges
                  /\ access_token' = token_data_access_token(reply, n)
                  /\ exchanges' = n
                  /\ pc' = [pc EXCEPT ![t] = "cb_check"]
                  /\ loc' = [others EXCEPT ![t] =
                               [l EXCEPT !.token = token_data_access_token(reply, n),
                                         !.wrote = (access_token' # access_token)]]
                  /\ response' = NoResponse

\* lines 131-133: if not access_token (the global)
CallbackCheck(t) ==
    /\ At(t, "cb_check")
    /\ IF ~Truthy(access_token)
       THEN Reply(t, "callback", 500, "Access token not found in response.",
                  JNull, loc[t])
       ELSE Goto(t, "cb_profile", loc[t])
    /\ UNCHANGED <<access_token, user_id, exchanges,
                   succeeded, profiled, quiet>>

\* lines 137-141: GET /users/me with the global as bearer
CallbackProfile(t) ==
    /\ At(t, "cb_profile")
    /\ Goto(t, "cb_wait", [loc[t] EXCEPT !.bearer = access_token,
                                         !.sent = @ \cup {"profile"}])
    /\ UNCHANGED <<access_token, user_id, exchanges,
                   succeeded, profiled, quiet>>

\* what /users/me can answer; the provider names the user only of a token it issued
ProfileReplies(bearer) ==
    {r \in [status : ProfileStatuses \cup {NoReply}, body : {"invalid", "noid", "id"}] :
        r.body = "id" => bearer \in IssuedTokens}

\* lines 142-143 raise (caught by except Exception, line 146)
profile_lookup_raises(reply) ==
    \/ reply.status = NoReply
    \/ raise_for_status(reply.status)
    \/ reply.body = "invalid"

\* line 144: user_data.get("id")
user_data_id(reply, bearer) ==
    IF reply.body = "id" THEN UserOf(TokenNumber(bearer)) ELSE None

\* lines 142-148
CallbackProfileReply(t) ==
    /\ At(t, "cb_wait")
    /\ \E reply \in ProfileReplies(loc[t].bearer) :
          LET l == [loc[t] EXCEPT !.profileStatus = reply.status]
          IN IF profile_lookup_raises(reply)
             THEN /\ Reply(t, "callback", 500, "Failed to get user profile", JNull, l)
                  /\ UNCHANGED <<user_id, profiled>>
             ELSE /\ user_id' = user_data_id(reply, loc[t].bearer)
                  /\ profiled' = TRUE
                  /\ Goto(t, "cb_ok",
                          [l EXCEPT !.wrote = @ \/ (user_id' # user_id)])
    /\ UNCHANGED <<access_token, exchanges, succeeded, quiet>>

\* lines 151-162: the confirmation page
CallbackReturn(t) ==
    /\ At(t, "cb_ok")
    /\ Reply(t, "callback", 200, "Authorization Complete", JNull, loc[t])
    /\ succeeded' = TRUE
    /\ quiet' = (\A u \in Threads \ {t} : pc[u] \notin CallbackPcs)
    /\ UNCHANGED <<access_token, user_id, exchanges,
                   profiled>>

\* -------------------------------------------------- POST /make-call
\* a variant of make_call without the token check
not_authorized_unchecked(token) == FALSE

\* line 173: if not access_token
not_authorized(token) == ~Truthy(token)

\* a variant of make_call without the user_id check
no_user_id_unchecked(uid) == FALSE

\* line 176: if not user_id
no_user_id(uid) == ~Truthy(uid)

\* line 181: if not extension
missing_extension(extension) == ~Truthy(extension)

\* line 191
call_url(uid) == "/phone/users/" \o uid \o "/call_command"

\* lines 194-205
call_payload(extension) ==
    [commands |-> <<[command |-> "call",
                     params |-> [callee |-> [extension_number |-> extension]]]>>]

\* lines 171-174
MakeCallStart(t) ==
    /\ At(t, "idle")
    /\ LET l == [NoLocals EXCEPT !.sawToken = Truthy(access_token),
                                 !.clean = quiet]
       IN IF not_authorized(access_token)
          THEN Reply(t, "make-call", 401, "Not authorized", JNull, l)
          ELSE Goto(t, "mc_user", l)
    /\ UNCHANGED <<access_token, user_id, exchanges,
                   succeeded, profiled, quiet>>

\* lines 176-182
MakeCallCheckUser(t) ==
    /\ At(t, "mc_user")
    /\ \E extension \in Extensions :
          LET l == [loc[t] EXCEPT !.sawUser = Truthy(user_id),
                                  !.extension = extension]
          IN IF no_user_id(user_id)
             THEN Reply(t, "make-call", 401, "User ID not available", JNull, l)
             ELSE IF missing_extension(extension)
             THEN Reply(t, "make-call", 400, "Missing extension number.", JNull, l)
             ELSE Goto(t, "mc_headers", l)
    /\ UNCHANGED <<access_token, user_id, exchanges,
                   succeeded, profiled, quiet>>

\* lines 185-188: the headers read the global access_token
MakeCallHeaders(t) ==
    /\ At(t, "mc_headers")
    /\ Goto(t, "mc_url", [loc[t] EXCEPT !.bearer = access_token])
    /\ UNCHANGED <<access_token, user_id, exchanges,
                   succeeded, profiled, quiet>>

\* what the call-command endpoint can answer; message is "" when the body is
\* not a JSON object or has no "message"
CallReplies ==
    [status : CallStatuses \cup {NoReply}, message : {"", "Invalid extension"}]

\* lines 213-253: the response of /make-call to the provider's answer
make_call_response(reply) ==
    IF reply.status = NoReply
    THEN [status |-> 500, body |-> "Error initiating call", error_message |-> ""]
    ELSE IF reply.status = 201 \/ reply.status = 200
    THEN [status |-> 200, body |-> "Call Initiated", error_message |-> ""]
    ELSE [status |-> 200, body |-> "Call Failed",
          error_message |-> IF reply.message = "" THEN "Unknown error"
                            ELSE reply.message]

\* lines 191-253: the URL reads the global user_id, the request goes out, the
\* provider answers
MakeCallPost(t) ==
    /\ At(t, "mc_url")
    /\ \E reply \in CallReplies :
          LET r == make_call_response(reply)
          IN Reply(t, "make-call", r.status, r.body, JNull,
                   [loc[t] EXCEPT !.call_url = call_url(user_id),
                                  !.payload = call_payload(loc[t].extension),
                                  !.sent = @ \cup {"call"},
                                  !.callStatus = reply.status,
                                  !.error_message = r.error_message])
    /\ UNCHANGED <<access_token, user_id, exchanges,
                   succeeded, profiled, quiet>>

\* app.run(), line 310: the server writes the response out before any thread
\* runs on (a response is an observation; sending it changes nothing else)
SendResponse ==
    /\ response # NoResponse
    /\ response' = NoResponse
    /\ UNCHANGED <<access_token, user_id, pc, loc, exchanges,
                   succeeded, profiled, quiet>>

Next ==
    \/ SendResponse
    \/ \E t \in Threads : Home(t)
    \/ \E t \in Threads : Authorize(t)
    \/ \E t \in Threads : Health(t)
    \/ \E t \in Threads : Webhook(t)
    \/ \E t \in Threads : CallbackStart(t)
    \/ \E t \in Threads : CallbackCheck(t)
    \/ \E t \in Threads : CallbackProfile(t)
    \/ \E t \in Threads : CallbackProfileReply(t)
    \/ \E t \in Threads : CallbackReturn(t)
    \/ \E t \in Threads : MakeCallStart(t)
    \/ \E t \in Threads : MakeCallCheckUser(t)
    \/ \E t \in Threads : MakeCallHeaders(t)
    \/ \E t \in Threads : MakeCallPost(t)

Spec == Init /\ [][Next]_vars

TypeOK ==
    /\ access_token \in {None, ""} \cup IssuedTokens
    /\ pc \in [Threads -> {"idle"} \cup CallbackPcs \cup MakeCallPcs]
    /\ exchanges \in 0..MaxExchanges

\* ========================================================================
\* Properties
\* ========================================================================
CallSent(l) == "call" \in l.sent
Is2xx(status) == status >= 200 /\ status < 300

\* C1: a call-command request goes out only from /make-call, and only after
\* the handler found access_token and user_id both present when it checked them.
C1_CallOnlyWhenAuthorized ==
    /\ \A t \in Threads : pc[t] \in {"mc_headers", "mc_url"} =>
          loc[t].sawToken /\ loc[t].sawUser
    /\ CallSent(response.ctx) =>
          /\ response.route = "make-call"
          /\ response.ctx.sawToken
          /\ response.ctx.sawUser

\* C1 witness: a call-command request has gone out and been answered
C1_Witness == response.route = "make-call" /\ CallSent(response.ctx)

\* what C2 promises of requests to /make-call
Rejected401 ==
    /\ \A t \in Threads : pc[t] \notin {"mc_headers", "mc_url"}
    /\ response.route = "make-call" =>
          response.status = 401 /\ ~CallSent(response.ctx)

\* C2 as stated: until some /callback has returned its confirmation page,
\* every /make-call is answered 401 and no call-command request goes out.
C2_Original == ~succeeded => Rejected401

\* C2 amended: until some /callback has stored the result of a profile lookup
\* (line 144), every /make-call is answered 401 and no call-command request
\* goes out.
C2_BeforeProfileStored == ~profiled => Rejected401

\* C2 witness: /make-call answered 401 on the user_id check, a token being
\* stored by a /callback that then failed
C2_Witness ==
    /\ ~profiled
    /\ Truthy(access_token)
    /\ response.route = "make-call"
    /\ response.status = 401
    /\ response.ctx.sawToken

\* C3: once a /callback has confirmed, access_token is present, and a
\* /make-call with an extension that follows with no /callback in between is
\* not rejected: it posts the payload for that extension to the stored
\* user's call_command URL with the stored token as bearer.
C3_CallAfterConfirmation ==
    /\ quiet => Truthy(access_token)
    /\ (/\ quiet
        /\ response.route = "make-call"
        /\ response.ctx.clean
        /\ Truthy(response.ctx.extension))
          => /\ response.status \notin {400, 401}
             /\ CallSent(response.ctx)
             /\ response.ctx.call_url = call_url(user_id)
             /\ response.ctx.bearer = access_token
             /\ response.ctx.payload = call_payload(response.ctx.extension)

\* C4: a /callback that answers with an error has not changed access_token or
\* user_id.
C4_ErrorLeavesState ==
    (response.route = "callback" /\ response.status # 200) => ~response.ctx.wrote

\* C5: when the provider answers the call-command request, /make-call answers
\* with success only for 200 or 201, and otherwise with 500 and the
\* provider's error message.
C5_UpstreamFailureIs500 ==
    (/\ response.route = "make-call"
     /\ CallSent(response.ctx)
     /\ response.ctx.callStatus # NoReply)
       => IF response.ctx.callStatus \in {200, 201}
          THEN response.status = 200 /\ response.body = "Call Initiated"
          ELSE response.status = 500 /\ response.ctx.error_message # ""

\* C6: /callback without a code, or with an empty one, answers 400
\* "Authorization code not found" and sends nothing to the provider.
C6_MissingCode ==
    /\ (response.route = "callback" /\ ~Truthy(response.ctx.code))
          => /\ response.status = 400
             /\ response.body = "Authorization code not found."
             /\ response.ctx.sent = {}
    /\ \A t \in Threads : pc[t] \in CallbackPcs => Truthy(loc[t].code)

\* C6 witness: the 400 answer, given after an authorization
C6_Witness ==
    /\ response.route = "callback"
    /\ response.status = 400
    /\ Truthy(access_token)

\* C7: a /callback with a code answers 500 when the token exchange fails or is
\* not answered 2xx, when the token response has no access_token, and when
\* the profile lookup fails; and it looks the profile up only after its token
\* exchange returned an access_token.
C7_UpstreamFailuresAre500 ==
    (response.route = "callback" /\ Truthy(response.ctx.code))
       => /\ ~Is2xx(response.ctx.tokenStatus) => response.status = 500
          /\ ~Truthy(response.ctx.token) => response.status = 500
          /\ ("profile" \in response.ctx.sent /\ ~Is2xx(response.ctx.profileStatus))
                => response.status = 500
          /\ "profile" \in response.ctx.sent => Truthy(response.ctx.token)

\* C8: /webhook answers a request that is not JSON with 400 "error", a JSON
\* object whose payload and payload.object are objects or absent with 200
\* "received" and the body's event, any other body with 500 "error"; and it
\* never changes access_token or user_id.
C8_WebhookOutcomes ==
    response.route = "webhook" =>
        /\ ~response.ctx.wrote
        /\ response.ctx.shape \in {"not json", "well formed", "malformed"}
        /\ response.ctx.shape = "not json" =>
              response.status = 400 /\ response.body = "error"
        /\ response.ctx.shape = "well formed" =>
              /\ response.status = 200
              /\ response.body = "received"
              /\ response.event = response.ctx.event_field
        /\ response.ctx.shape = "malformed" =>
              response.status = 500 /\ response.body = "error"

\* C8 witness: a well-formed event acknowledged while a token is stored
C8_Witness ==
    /\ response.route = "webhook"
    /\ response.status = 200
    /\ response.event = JStr("phone.callee_ringing")
    /\ Truthy(access_token)

\* C9: /health answers 200 "healthy" whatever access_token and user_id hold,
\* and changes neither.
C9_HealthAlways200 ==
    response.route = "health" =>
        /\ response.status = 200
        /\ response.body = "healthy"
        /\ ~response.ctx.wrote

\* C9 witness: /health answered with a token stored but no user_id, and while
\* another request is being handled
C9_Witness ==
    /\ response.route = "health"
    /\ Truthy(access_token)
    /\ ~Truthy(user_id)
    /\ \E t \in Threads : pc[t] # "idle"

\* C10: the user_id in the URL of a call-command request is the user of the
\* authorization that issued the token the request carries.
C10_SameAuthorization ==
    (CallSent(response.ctx) /\ response.ctx.bearer \in IssuedTokens)
        => response.ctx.call_url
              = call_url(UserOf(TokenNumber(response.ctx.bearer)))

====
